---- MODULE Spec2Model ----
(***************************************************************************)
(* Model of app.py, the Streamlit investment calculator.                   *)
(*                                                                         *)
(* The script is re-executed from its first line on every widget           *)
(* interaction, each time in a fresh namespace.  The widgets keep their    *)
(* values between runs; everything else is recomputed.  The body of        *)
(* `if st.button("Calculate Returns")` runs only in the run started by a   *)
(* click.  The model follows one browser session: a widget change is a     *)
(* run without the click, ClickCalculate starts the handler, and the       *)
(* handler is followed statement group by statement group through pc.      *)
(*                                                                         *)
(* Python floats are modelled as exact rationals [n, d] in lowest terms    *)
(* (d > 0), so equalities below are equalities of real numbers; rounding   *)
(* of IEEE doubles is not modelled.                                        *)
(***************************************************************************)
EXTENDS Integers, Sequences, FiniteSets

VARIABLES
    \* widget values (lines 25-116)
    initial_investment, percentage_gain, trading_days, trades_per_day, reinvest,
    federal_tax_rate, state_tax_rate, tax_deductions, capital_gains, long_term_rate,
    \* names bound by the handler (lines 129-191)
    results_data, current_amount, day, trade, daily_starting_amount,
    trade_gain, daily_gain, amount,
    final_amount, total_profit, percentage_increase,
    taxable_profit, federal_tax, state_tax, total_tax, net_profit,
    \* the rate shown in the detailed breakdown's category label (line 267)
    tax_label_rate,
    \* position of the running script and the exception that ended it
    pc, err

widgets == <<initial_investment, percentage_gain, trading_days, trades_per_day, reinvest,
             federal_tax_rate, state_tax_rate, tax_deductions, capital_gains, long_term_rate>>
loopvars == <<results_data, current_amount, day, trade, daily_starting_amount,
              trade_gain, daily_gain, amount>>
summaryvars == <<final_amount, total_profit, percentage_increase>>
taxvars == <<taxable_profit, federal_tax, state_tax, total_tax, net_profit>>
vars == <<widgets, loopvars, summaryvars, taxvars, tax_label_rate, pc, err>>

----------------------------------------------------------------------------
(* Bound of the model: the sliders allow up to 22 days of 10 trades; the   *)
(* model explores every (days, trades) pair with at most this many trades. *)
MaxTotalTrades == 4

----------------------------------------------------------------------------
(* Float arithmetic as exact rational arithmetic.                          *)

RECURSIVE GCD(_, _)
GCD(a, b) == IF b = 0 THEN a ELSE GCD(b, a % b)

Abs(x) == IF x < 0 THEN -x ELSE x

Rat(n, d) ==
    LET g == GCD(Abs(n), Abs(d))
        s == IF d < 0 THEN -1 ELSE 1
    IN [n |-> s * (n \div g), d |-> s * (d \div g)]

\* an int used where a float is expected (trading counts, literals 0 and 100)
Num(k) == [n |-> k, d |-> 1]

\* a name that the current run of the script has not assigned
Unbound == [n |-> 0, d |-> -1]

\* numpy's result of 0.0 / 0.0
NaN == [n |-> 0, d |-> 0]

Add(a, b) ==
    LET g == GCD(a.d, b.d)
    IN Rat(a.n * (b.d \div g) + b.n * (a.d \div g), (a.d \div g) * b.d)

Neg(a) == [n |-> -a.n, d |-> a.d]

Sub(a, b) == Add(a, Neg(b))

Mul(a, b) ==
    LET g1 == GCD(Abs(a.n), b.d)
        g2 == GCD(Abs(b.n), a.d)
    IN [n |-> (a.n \div g1) * (b.n \div g2), d |-> (a.d \div g2) * (b.d \div g1)]

\* a / b; the one division by a variable (line 179) has a numpy float64
\* numerator, so a zero divisor gives nan or inf and no exception
Div(a, b) ==
    IF b.n = 0
    THEN IF a.n = 0 THEN NaN ELSE [n |-> IF a.n < 0 THEN -1 ELSE 1, d |-> 0]
    ELSE Mul(a, [n |-> IF b.n < 0 THEN -b.d ELSE b.d, d |-> Abs(b.n)])

Less(a, b) == Sub(a, b).n < 0

Leq(a, b) == Sub(a, b).n <= 0

\* max(0, x) of line 182
Max0(x) == IF Less(Num(0), x) THEN x ELSE Num(0)

----------------------------------------------------------------------------
(* The widgets.  Each set is a sample of the values the widget can return. *)

\* st.number_input(min_value=1.0, step=100.0), default 1000.0
InitialInvestmentChoices == {Num(1), Num(1000)}

\* st.slider(0.1 .. 10.0, step 0.1)
PercentageGainChoices == {Num(5), Num(10)}

\* the two int sliders, minimum 1, cut at MaxTotalTrades
TradingDaysChoices == 1..MaxTotalTrades
TradesPerDayChoices == 1..MaxTotalTrades

\* st.slider(0.0 .. 50.0, step 0.5), default 22.0
FederalTaxRateChoices == {Num(0), Num(22)}

\* st.slider(0.0 .. 20.0, step 0.5), default 5.0
StateTaxRateChoices == {Num(0), Num(5)}

\* st.number_input(min_value=0.0, step=100.0), default 0.0
TaxDeductionsChoices == {Num(0), Num(100)}

ShortTerm == "Short-term (Ordinary Income)"
LongTerm == "Long-term Capital Gains"
CapitalGainsChoices == {ShortTerm, LongTerm}

\* st.slider(0.0 .. 30.0, step 0.5); 15.0 when the slider first appears
LongTermRateDefault == Num(15)
LongTermRateChoices == {Num(0), Num(15)}

\* the script is not running: it ended without the click, after the
\* handler, or with an exception
Waiting == pc \in {"idle", "done", "error"}

\* what a new run of the script starts from: no name of the handler is
\* bound (results_data and current_amount are left to the caller)
FreshNamespace ==
    /\ day' = 0
    /\ trade' = 0
    /\ daily_starting_amount' = Unbound
    /\ trade_gain' = Unbound
    /\ daily_gain' = Unbound
    /\ amount' = Unbound
    /\ final_amount' = Unbound
    /\ total_profit' = Unbound
    /\ percentage_increase' = Unbound
    /\ taxable_profit' = Unbound
    /\ federal_tax' = Unbound
    /\ state_tax' = Unbound
    /\ total_tax' = Unbound
    /\ net_profit' = Unbound
    /\ tax_label_rate' = Unbound
    /\ err' = "none"

\* a run in which st.button returns False: lines 129-297 are skipped
RunWithoutClick ==
    /\ FreshNamespace
    /\ results_data' = <<>>
    /\ current_amount' = Unbound
    /\ pc' = "idle"

Init ==
    /\ initial_investment = Num(1000)
    /\ percentage_gain = Num(10)
    /\ trading_days = 1
    /\ trades_per_day = 1
    /\ reinvest = TRUE
    /\ federal_tax_rate = Num(22)
    /\ state_tax_rate = Num(5)
    /\ tax_deductions = Num(0)
    /\ capital_gains = ShortTerm
    /\ long_term_rate = Unbound
    /\ results_data = <<>>
    /\ current_amount = Unbound
    /\ day = 0
    /\ trade = 0
    /\ daily_starting_amount = Unbound
    /\ trade_gain = Unbound
    /\ daily_gain = Unbound
    /\ amount = Unbound
    /\ final_amount = Unbound
    /\ total_profit = Unbound
    /\ percentage_increase = Unbound
    /\ taxable_profit = Unbound
    /\ federal_tax = Unbound
    /\ state_tax = Unbound
    /\ total_tax = Unbound
    /\ net_profit = Unbound
    /\ tax_label_rate = Unbound
    /\ pc = "idle"
    /\ err = "none"

SetInitialInvestment ==
    /\ Waiting
    /\ \E v \in InitialInvestmentChoices : initial_investment' = v
    /\ UNCHANGED <<percentage_gain, trading_days, trades_per_day, reinvest,
                   federal_tax_rate, state_tax_rate, tax_deductions, capital_gains,
                   long_term_rate>>
    /\ RunWithoutClick

SetPercentageGain ==
    /\ Waiting
    /\ \E v \in PercentageGainChoices : percentage_gain' = v
    /\ UNCHANGED <<initial_investment, trading_days, trades_per_day, reinvest,
                   federal_tax_rate, state_tax_rate, tax_deductions, capital_gains,
                   long_term_rate>>
    /\ RunWithoutClick

SetTradingDays ==
    /\ Waiting
    /\ \E v \in TradingDaysChoices :
          /\ v * trades_per_day <= MaxTotalTrades
          /\ trading_days' = v
    /\ UNCHANGED <<initial_investment, percentage_gain, trades_per_day, reinvest,
                   federal_tax_rate, state_tax_rate, tax_deductions, capital_gains,
                   long_term_rate>>
    /\ RunWithoutClick

SetTradesPerDay ==
    /\ Waiting
    /\ \E v \in TradesPerDayChoices :
          /\ trading_days * v <= MaxTotalTrades
          /\ trades_per_day' = v
    /\ UNCHANGED <<initial_investment, percentage_gain, trading_days, reinvest,
                   federal_tax_rate, state_tax_rate, tax_deductions, capital_gains,
                   long_term_rate>>
    /\ RunWithoutClick

ToggleReinvest ==
    /\ Waiting
    /\ reinvest' = ~reinvest
    /\ UNCHANGED <<initial_investment, percentage_gain, trading_days, trades_per_day,
                   federal_tax_rate, state_tax_rate, tax_deductions, capital_gains,
                   long_term_rate>>
    /\ RunWithoutClick

SetFederalTaxRate ==
    /\ Waiting
    /\ \E v \in FederalTaxRateChoices : federal_tax_rate' = v
    /\ UNCHANGED <<initial_investment, percentage_gain, trading_days, trades_per_day,
                   reinvest, state_tax_rate, tax_deductions, capital_gains,
                   long_term_rate>>
    /\ RunWithoutClick

SetStateTaxRate ==
    /\ Waiting
    /\ \E v \in StateTaxRateChoices : state_tax_rate' = v
    /\ UNCHANGED <<initial_investment, percentage_gain, trading_days, trades_per_day,
                   reinvest, federal_tax_rate, tax_deductions, capital_gains,
                   long_term_rate>>
    /\ RunWithoutClick

SetTaxDeductions ==
    /\ Waiting
    /\ \E v \in TaxDeductionsChoices : tax_deductions' = v
    /\ UNCHANGED <<initial_investment, percentage_gain, trading_days, trades_per_day,
                   reinvest, federal_tax_rate, state_tax_rate, capital_gains,
                   long_term_rate>>
    /\ RunWithoutClick

\* whether the run executes the assignment of line 109
AssignsLongTermRate(tax_type) == tax_type = LongTerm

\* the radio; the long-term slider exists, and long_term_rate is assigned,
\* only in runs where the radio reads long-term
SetCapitalGains ==
    /\ Waiting
    /\ \E v \in CapitalGainsChoices :
          /\ v # capital_gains
          /\ capital_gains' = v
          /\ long_term_rate' = IF AssignsLongTermRate(v) THEN LongTermRateDefault
                                                         ELSE Unbound
    /\ UNCHANGED <<initial_investment, percentage_gain, trading_days, trades_per_day,
                   reinvest, federal_tax_rate, state_tax_rate, tax_deductions>>
    /\ RunWithoutClick

\* the long-term slider can be moved only while it is shown
SetLongTermRate ==
    /\ Waiting
    /\ capital_gains = LongTerm
    /\ \E v \in LongTermRateChoices : long_term_rate' = v
    /\ UNCHANGED <<initial_investment, percentage_gain, trading_days, trades_per_day,
                   reinvest, federal_tax_rate, state_tax_rate, tax_deductions,
                   capital_gains>>
    /\ RunWithoutClick

WidgetChange ==
    \/ SetInitialInvestment
    \/ SetPercentageGain
    \/ SetTradingDays
    \/ SetTradesPerDay
    \/ ToggleReinvest
    \/ SetFederalTaxRate
    \/ SetStateTaxRate
    \/ SetTaxDeductions
    \/ SetCapitalGains
    \/ SetLongTermRate

----------------------------------------------------------------------------
(* The handler of the Calculate Returns button, lines 129-297.             *)

\* the click: a new run of the script whose st.button returns True;
\* lines 131-135
ClickCalculate ==
    /\ Waiting
    /\ FreshNamespace
    /\ results_data' = <<>>
    /\ current_amount' = initial_investment
    /\ pc' = IF reinvest THEN "reinvest_loop" ELSE "flat_setup"
    /\ UNCHANGED widgets

\* variant: range(1, trading_days) in place of range(1, trading_days + 1)
DayLoopStopsEarly == day < trading_days - 1

\* range(1, trading_days + 1) has a value after `day`
DayLoopHasNext == day < trading_days

\* range(trades_per_day) has a value after `trade` iterations
TradeLoopHasNext == trade < trades_per_day

\* line 137-138: the next day of the compounding loop begins
ReinvestDayBegin ==
    /\ pc = "reinvest_loop"
    /\ DayLoopHasNext
    /\ day' = day + 1
    /\ daily_starting_amount' = current_amount
    /\ trade' = 0
    /\ pc' = "trades"
    /\ UNCHANGED <<widgets, results_data, current_amount, trade_gain, daily_gain, amount,
                   summaryvars, taxvars, tax_label_rate, err>>

\* variant: the trade gain taken on the day's starting amount
TradeGainOnDayStart == Mul(daily_starting_amount, Div(percentage_gain, Num(100)))

\* line 142
ReinvestTradeGain == Mul(current_amount, Div(percentage_gain, Num(100)))

\* variant: `=` in place of `+=`
AfterTradeAssigned(cur, tg) == tg

\* line 143: current_amount += trade_gain
AfterTrade(cur, tg) == Add(cur, tg)

\* lines 141-143: one trade of the day
ReinvestTrade ==
    /\ pc = "trades"
    /\ TradeLoopHasNext
    /\ trade_gain' = ReinvestTradeGain
    /\ current_amount' = AfterTrade(current_amount, ReinvestTradeGain)
    /\ trade' = trade + 1
    /\ UNCHANGED <<widgets, results_data, day, daily_starting_amount, daily_gain, amount,
                   summaryvars, taxvars, tax_label_rate, pc, err>>

\* variant: the day's gain taken to be the last trade's gain
DailyGainOfLastTrade == trade_gain

\* line 146
ReinvestDailyGain == Sub(current_amount, daily_starting_amount)

\* lines 146-153: the day's trades are over, its record is appended
ReinvestDayEnd ==
    /\ pc = "trades"
    /\ ~TradeLoopHasNext
    /\ daily_gain' = ReinvestDailyGain
    /\ results_data' = Append(results_data,
                              [Day |-> day, Amount |-> current_amount,
                               DailyGain |-> ReinvestDailyGain])
    /\ pc' = "reinvest_loop"
    /\ UNCHANGED <<widgets, current_amount, day, trade, daily_starting_amount, trade_gain,
                   amount, summaryvars, taxvars, tax_label_rate, err>>

\* the compounding loop is exhausted
ReinvestLoopEnd ==
    /\ pc = "reinvest_loop"
    /\ ~DayLoopHasNext
    /\ pc' = "summary"
    /\ UNCHANGED <<widgets, loopvars, summaryvars, taxvars, tax_label_rate, err>>

\* line 157
FlatTradeGain == Mul(initial_investment, Div(percentage_gain, Num(100)))

\* line 160, from the trade gain of line 157
FlatDailyGain(tg) == Mul(tg, Num(trades_per_day))

\* lines 157-160
FlatSetup ==
    /\ pc = "flat_setup"
    /\ trade_gain' = FlatTradeGain
    /\ daily_gain' = FlatDailyGain(FlatTradeGain)
    /\ pc' = "flat_loop"
    /\ UNCHANGED <<widgets, results_data, current_amount, day, trade,
                   daily_starting_amount, amount, summaryvars, taxvars,
                   tax_label_rate, err>>

\* variant: the loop value counted from 0
FlatAmountFromZero(d) == Add(initial_investment, Mul(daily_gain, Num(d - 1)))

\* line 164, for loop value d
FlatAmount(d) == Add(initial_investment, Mul(daily_gain, Num(d)))

\* lines 162-171: one day of the flat loop
FlatDay ==
    /\ pc = "flat_loop"
    /\ DayLoopHasNext
    /\ day' = day + 1
    /\ amount' = FlatAmount(day + 1)
    /\ results_data' = Append(results_data,
                              [Day |-> day + 1, Amount |-> FlatAmount(day + 1),
                               DailyGain |-> daily_gain])
    /\ UNCHANGED <<widgets, current_amount, trade, daily_starting_amount, trade_gain,
                   daily_gain, summaryvars, taxvars, tax_label_rate, pc, err>>

\* the flat loop is exhausted
FlatLoopEnd ==
    /\ pc = "flat_loop"
    /\ ~DayLoopHasNext
    /\ pc' = "summary"
    /\ UNCHANGED <<widgets, loopvars, summaryvars, taxvars, tax_label_rate, err>>

\* line 177: results_df["Amount"].iloc[-1]
FinalAmount == results_data[Len(results_data)].Amount

\* lines 174-179; a DataFrame built from an empty list has no "Amount"
\* column, and line 177 raises KeyError
Summary ==
    /\ pc = "summary"
    /\ IF results_data = <<>>
       THEN /\ pc' = "error"
            /\ err' = "KeyError"
            /\ UNCHANGED summaryvars
       ELSE /\ final_amount' = FinalAmount
            /\ total_profit' = Sub(FinalAmount, initial_investment)
            /\ percentage_increase' =
                   Mul(Div(Sub(FinalAmount, initial_investment), initial_investment),
                       Num(100))
            /\ pc' = "taxes"
            /\ err' = err
    /\ UNCHANGED <<widgets, loopvars, taxvars, tax_label_rate>>

\* variant: no max(0, ...)
TaxableProfitUnclamped == Sub(total_profit, tax_deductions)

\* line 182
TaxableProfit == Max0(Sub(total_profit, tax_deductions))

\* variant: the radio's value compared with a string it never has
FederalLineTestsOtherString == capital_gains # "Short-term"

\* line 184: the branch that reads long_term_rate
FederalLineIsLongTerm == capital_gains = LongTerm

\* variant: the ordinary rate on the federal line whatever the tax type
FederalLineRateOrdinary == federal_tax_rate

\* lines 184-187: the rate of the federal line
FederalLineRate == IF FederalLineIsLongTerm THEN long_term_rate ELSE federal_tax_rate

\* lines 185, 187 and 189: taxable profit tp times rate per cent
TaxAt(tp, rate) == Mul(tp, Div(rate, Num(100)))

\* variant: the deductions taken off the net profit as well
NetProfitLessDeductions(tt) == Sub(Sub(total_profit, tax_deductions), tt)

\* line 191, from the total tax of line 190
NetProfit(tt) == Sub(total_profit, tt)

\* lines 182-191; reading a name the run has not assigned raises NameError
ComputeTaxes ==
    /\ pc = "taxes"
    /\ IF FederalLineRate = Unbound
       THEN /\ taxable_profit' = TaxableProfit
            /\ pc' = "error"
            /\ err' = "NameError"
            /\ UNCHANGED <<federal_tax, state_tax, total_tax, net_profit>>
       ELSE LET tp == TaxableProfit
                ft == TaxAt(tp, FederalLineRate)
                stx == TaxAt(tp, state_tax_rate)
                tt == Add(ft, stx)
            IN /\ taxable_profit' = tp
               /\ federal_tax' = ft
               /\ state_tax' = stx
               /\ total_tax' = tt
               /\ net_profit' = NetProfit(tt)
               /\ pc' = "render"
               /\ err' = err
    /\ UNCHANGED <<widgets, loopvars, summaryvars, tax_label_rate>>

\* line 267: the label shows federal_tax_rate for the short-term choice and
\* reads long_term_rate otherwise
LabelIsLongTerm == capital_gains # ShortTerm

LabelRate == IF LabelIsLongTerm THEN long_term_rate ELSE federal_tax_rate

\* lines 193-297: the results are displayed; the only name read here that
\* a run may not have assigned is long_term_rate
Render ==
    /\ pc = "render"
    /\ IF LabelRate = Unbound
       THEN /\ pc' = "error"
            /\ err' = "NameError"
            /\ UNCHANGED tax_label_rate
       ELSE /\ tax_label_rate' = LabelRate
            /\ pc' = "done"
            /\ err' = err
    /\ UNCHANGED <<widgets, loopvars, summaryvars, taxvars>>

HandlerStep ==
    \/ ReinvestDayBegin
    \/ ReinvestTrade
    \/ ReinvestDayEnd
    \/ ReinvestLoopEnd
    \/ FlatSetup
    \/ FlatDay
    \/ FlatLoopEnd
    \/ Summary
    \/ ComputeTaxes
    \/ Render

Next ==
    \/ WidgetChange
    \/ ClickCalculate
    \/ HandlerStep

Spec == Init /\ [][Next]_vars

----------------------------------------------------------------------------
(* The handler as an engine: lines 129-191 run on whatever parameters its  *)
(* caller holds, including values the widgets' minima and maxima would     *)
(* not let through.  Used for the claims about the engine's own domain.    *)

EngineInitialInvestment == InitialInvestmentChoices \cup {Num(0), Num(-1000)}
EnginePercentageGain == PercentageGainChoices \cup {Num(0), Num(-10)}
EngineTradingDays == 0..MaxTotalTrades
EngineTradesPerDay == 0..MaxTotalTrades

InitEngine ==
    /\ initial_investment \in EngineInitialInvestment
    /\ percentage_gain \in EnginePercentageGain
    /\ trading_days \in EngineTradingDays
    /\ trades_per_day \in EngineTradesPerDay
    /\ trading_days * trades_per_day <= MaxTotalTrades
    /\ reinvest \in BOOLEAN
    /\ federal_tax_rate \in FederalTaxRateChoices
    /\ state_tax_rate \in StateTaxRateChoices
    /\ tax_deductions \in TaxDeductionsChoices
    /\ capital_gains \in CapitalGainsChoices
    /\ long_term_rate \in IF AssignsLongTermRate(capital_gains)
                          THEN LongTermRateChoices ELSE {Unbound}
    /\ results_data = <<>>
    /\ current_amount = Unbound
    /\ day = 0
    /\ trade = 0
    /\ daily_starting_amount = Unbound
    /\ trade_gain = Unbound
    /\ daily_gain = Unbound
    /\ amount = Unbound
    /\ final_amount = Unbound
    /\ total_profit = Unbound
    /\ percentage_increase = Unbound
    /\ taxable_profit = Unbound
    /\ federal_tax = Unbound
    /\ state_tax = Unbound
    /\ total_tax = Unbound
    /\ net_profit = Unbound
    /\ tax_label_rate = Unbound
    /\ pc = "idle"
    /\ err = "none"

NextEngine ==
    \/ ClickCalculate
    \/ HandlerStep

SpecEngine == InitEngine /\ [][NextEngine]_vars

----------------------------------------------------------------------------
(* Properties.                                                             *)

\* the handler is inside one of its two loops
InLoop == pc \in {"reinvest_loop", "trades", "flat_setup", "flat_loop"}

\* the loop is over and line 174 is reached or passed
AfterLoop == pc \in {"summary", "taxes", "render", "done"}

\* lines 177-179 have run
AfterSummary == pc \in {"taxes", "render", "done"}

\* lines 182-191 have run
AfterTaxes == pc \in {"render", "done"}

RECURSIVE Pow(_, _)
Pow(x, k) == IF k = 0 THEN Num(1) ELSE Mul(x, Pow(x, k - 1))

\* 1 + percentage_gain/100
GrowthFactor == Add(Num(1), Div(percentage_gain, Num(100)))

\* trades applied so far in the run
TradesApplied ==
    IF pc = "trades" THEN (day - 1) * trades_per_day + trade ELSE day * trades_per_day

RECURSIVE SumDailyGain(_)
SumDailyGain(rs) ==
    IF rs = <<>> THEN Num(0)
    ELSE Add(SumDailyGain(SubSeq(rs, 1, Len(rs) - 1)), rs[Len(rs)].DailyGain)

\* the domain the specification gives the engine's parameters
ValidParams ==
    /\ Less(Num(0), initial_investment)
    /\ Leq(Num(0), percentage_gain)
    /\ Leq(percentage_gain, Num(100))
    /\ trading_days >= 1
    /\ trades_per_day >= 1

\* C1: with reinvest on, the running amount after k trades is
\* initial_investment * (1 + percentage_gain/100)^k at every point of the
\* loop, and the amount recorded for the last day is
\* initial_investment * (1 + percentage_gain/100)^(trading_days * trades_per_day).
C1_CompoundedAmount ==
    reinvest =>
        /\ (pc \in {"reinvest_loop", "trades"} \/ AfterLoop) =>
               current_amount = Mul(initial_investment, Pow(GrowthFactor, TradesApplied))
        /\ AfterLoop =>
               /\ Len(results_data) = trading_days
               /\ results_data[trading_days].Amount =
                      Mul(initial_investment,
                          Pow(GrowthFactor, trading_days * trades_per_day))

\* 1000 at 10% per trade, 2 days of 2 trades: 1000 * 1.1^4 = 1464.10
C1_Witness ==
    /\ pc = "done"
    /\ reinvest
    /\ initial_investment = Num(1000)
    /\ percentage_gain = Num(10)
    /\ trading_days = 2
    /\ trades_per_day = 2
    /\ results_data[2].Amount = Rat(14641, 10)

\* C2: with reinvest off, the record of every day d has amount
\* initial_investment + d * trades_per_day * initial_investment * percentage_gain/100
\* and the same daily gain, trades_per_day * initial_investment * percentage_gain/100.
C2_LinearAmount ==
    (~reinvest /\ (pc = "flat_loop" \/ AfterLoop)) =>
        \A d \in 1..Len(results_data) :
            /\ results_data[d].Amount =
                   Add(initial_investment,
                       Div(Mul(Mul(Num(d * trades_per_day), initial_investment),
                               percentage_gain),
                           Num(100)))
            /\ results_data[d].DailyGain =
                   Div(Mul(Mul(Num(trades_per_day), initial_investment), percentage_gain),
                       Num(100))

\* 1000 at 10%, 3 days of 1 trade: 1100, 1200, 1300, gain 100 each day
C2_Witness ==
    /\ pc = "done"
    /\ ~reinvest
    /\ initial_investment = Num(1000)
    /\ percentage_gain = Num(10)
    /\ trading_days = 3
    /\ trades_per_day = 1
    /\ results_data[3].Amount = Num(1300)
    /\ \A d \in 1..3 : results_data[d].DailyGain = Num(100)

C4_TaxableClamped ==
    AfterTaxes =>
        /\ taxable_profit = IF Less(tax_deductions, total_profit)
                            THEN Sub(total_profit, tax_deductions) ELSE Num(0)
        /\ Leq(Num(0), taxable_profit)
        /\ Less(total_profit, tax_deductions) =>
               /\ taxable_profit = Num(0)
               /\ total_tax = Num(0)
               /\ net_profit = total_profit

\* deductions of 100 against a smaller profit, both rates positive
C4_Witness ==
    /\ pc = "done"
    /\ Less(total_profit, tax_deductions)
    /\ Less(Num(0), total_profit)
    /\ federal_tax_rate = Num(22)
    /\ state_tax_rate = Num(5)
    /\ taxable_profit = Num(0)
    /\ total_tax = Num(0)

\* C5: federal_tax is taxable_profit * long_term_rate/100 when the tax type
\* is long-term and taxable_profit * federal_rate/100 otherwise;
\* state_tax is taxable_profit * state_rate/100 in both cases.
C5_OneFederalRate ==
    AfterTaxes =>
        /\ capital_gains = LongTerm =>
               federal_tax = Div(Mul(taxable_profit, long_term_rate), Num(100))
        /\ capital_gains # LongTerm =>
               federal_tax = Div(Mul(taxable_profit, federal_tax_rate), Num(100))
        /\ state_tax = Div(Mul(taxable_profit, state_tax_rate), Num(100))

\* long-term at 15% with the ordinary rate at 22%: the two differ
C5_Witness ==
    /\ pc = "done"
    /\ capital_gains = LongTerm
    /\ long_term_rate = Num(15)
    /\ federal_tax_rate = Num(22)
    /\ Less(Num(0), taxable_profit)
    /\ federal_tax = Div(Mul(taxable_profit, Num(15)), Num(100))
    /\ federal_tax # Div(Mul(taxable_profit, Num(22)), Num(100))

\* C6: net_profit = total_profit - (federal_tax + state_tax); with
\* deductions >= total_profit >= 0 the net profit is the gross profit.
C6_NetFromGross ==
    AfterTaxes =>
        /\ total_tax = Add(federal_tax, state_tax)
        /\ net_profit = Sub(total_profit, Add(federal_tax, state_tax))
        /\ (Leq(Num(0), total_profit) /\ Leq(total_profit, tax_deductions)) =>
               net_profit = total_profit

\* deductions of 100 below the profit, tax due: net is gross minus tax only
C6_Witness ==
    /\ pc = "done"
    /\ tax_deductions = Num(100)
    /\ Less(tax_deductions, total_profit)
    /\ Less(Num(0), total_tax)
    /\ net_profit = Sub(total_profit, total_tax)
    /\ net_profit # Sub(taxable_profit, total_tax)

\* the records so far are numbered 1, 2, ... and the finished loop has
\* produced trading_days of them; final_amount is the last one's amount
C7_Records ==
    /\ \A i \in 1..Len(results_data) : results_data[i].Day = i
    /\ Len(results_data) <= trading_days
    /\ AfterLoop => Len(results_data) = trading_days
    /\ AfterSummary => final_amount = results_data[trading_days].Amount

\* within a run the list only grows at its end
C7_AppendOnly ==
    (InLoop \/ AfterLoop) /\ pc # "done" =>
        /\ Len(results_data') >= Len(results_data)
        /\ SubSeq(results_data', 1, Len(results_data)) = results_data

\* C7: in both modes the run emits exactly trading_days records, numbered
\* 1..trading_days in order; a record once appended is not changed later in
\* the run; final_amount is the amount of record trading_days.
C7_DayRecords == []C7_Records /\ [][C7_AppendOnly]_vars

C7_Witness ==
    /\ pc = "done"
    /\ ~reinvest
    /\ trading_days = 3
    /\ Len(results_data) = 3
    /\ results_data[3].Day = 3
    /\ final_amount = results_data[3].Amount

\* C8: for parameters in the domain, in both modes: with
\* percentage_gain > 0 each recorded amount is at least the one before it
\* and the first is at least initial_investment; with percentage_gain = 0
\* every recorded amount is initial_investment.
C8_NonDecreasing ==
    ValidParams =>
        /\ Less(Num(0), percentage_gain) =>
               \A i \in 1..Len(results_data) :
                   Leq(IF i = 1 THEN initial_investment ELSE results_data[i - 1].Amount,
                       results_data[i].Amount)
        /\ percentage_gain = Num(0) =>
               \A i \in 1..Len(results_data) :
                   results_data[i].Amount = initial_investment

C8_Witness ==
    /\ pc = "done"
    /\ ValidParams
    /\ reinvest
    /\ Less(Num(0), percentage_gain)
    /\ Len(results_data) = 3
    /\ Less(initial_investment, results_data[1].Amount)
    /\ Less(results_data[1].Amount, results_data[2].Amount)
    /\ Less(results_data[2].Amount, results_data[3].Amount)

\* each record's daily gain is its amount less the amount before it, and
\* the gains add up to total_profit = final_amount - initial_investment
C9_Gains ==
    /\ \A i \in 1..Len(results_data) :
           results_data[i].DailyGain =
               Sub(results_data[i].Amount,
                   IF i = 1 THEN initial_investment ELSE results_data[i - 1].Amount)
    /\ AfterSummary =>
           /\ total_profit = Sub(final_amount, initial_investment)
           /\ SumDailyGain(results_data) = total_profit

\* the handler does not assign initial_investment
C9_InitialKept ==
    (InLoop \/ AfterLoop) /\ pc # "done" => initial_investment' = initial_investment

\* C9: in both modes the recorded daily gain of day d is
\* amount[d] - amount[d-1] with amount[0] = initial_investment, the daily
\* gains sum to total_profit = final_amount - initial_investment, and the
\* loop leaves initial_investment unchanged.
C9_DailyGainIsDifference == []C9_Gains /\ [][C9_InitialKept]_vars

C9_Witness ==
    /\ pc = "done"
    /\ reinvest
    /\ trading_days = 2
    /\ trades_per_day = 2
    /\ results_data[2].DailyGain = Sub(results_data[2].Amount, results_data[1].Amount)
    /\ results_data[2].DailyGain # trade_gain
    /\ SumDailyGain(results_data) = total_profit

\* C10: no run ends in NameError: long_term_rate is bound exactly in the
\* runs whose tax type is long-term, and the federal line and the
\* breakdown label read it only in those runs.
C10_LongTermRateBound ==
    /\ err # "NameError"
    /\ (long_term_rate # Unbound) <=> (capital_gains = LongTerm)
    /\ (AfterTaxes /\ capital_gains = ShortTerm) =>
           federal_tax = Div(Mul(taxable_profit, federal_tax_rate), Num(100))
    /\ (pc = "done" /\ capital_gains = ShortTerm) => tax_label_rate = federal_tax_rate

\* a short-term calculation that ran to its end with long_term_rate unbound
C10_Witness ==
    /\ pc = "done"
    /\ err = "none"
    /\ capital_gains = ShortTerm
    /\ long_term_rate = Unbound
    /\ tax_label_rate = federal_tax_rate

====
